---- MODULE Spec2Model ----
(***************************************************************************)
(* Verification model of the Zenodo verification-tools pipeline:          *)
(*   crawler_module.py  (ZenodoCrawler)                                    *)
(*   parser_module.py   (ToolDataParser)                                   *)
(*   storage_module.py  (DataStorage)                                      *)
(* Python strings are TLA+ strings; an optional value (None or a string)   *)
(* is the empty tuple <<>> or the one-element tuple <<s>>.                 *)
(***************************************************************************)
EXTENDS Integers, Sequences, FiniteSets, TLC

VARIABLES
    record,          \* classifier input: a processed record
    relevant,        \* <<>> or <<result of is_relevant_tool(record)>>
    category,        \* <<>> or <<result of _categorize_tool(record)>>
    desc,            \* _clean_description input: None or a string
    cleaned,         \* <<>> or <<result of _clean_description(desc)>>
    sp_pc,           \* search_with_pagination: "idle", "loop", "return", "done"
    sp_max_results,  \* its max_results argument
    sp_all_results,  \* its all_results list
    sp_page,         \* its page counter
    sp_requests,     \* number of page requests issued so far
    sp_last_len,     \* length of the last page received, -1 before the first
    sp_returned,     \* the list it returned
    seen_ids,        \* ZenodoCrawler.seen_ids
    cr_pc,           \* run: "idle", "running", "done"
    cr_categories,   \* run: the category list it iterates
    cr_ci,           \* run: index of the current category
    cr_qi,           \* run: index of the current query of that category
    cr_all_results,  \* run: its all_results list
    cr_result,       \* run: the list it returned (also self.crawled_data)
    cr_runs,         \* number of run calls started on this crawler
    cr_seen_before,  \* history: seen_ids when the current run started
    cr_returned_by,  \* history: per raw hit, the first category whose query
                     \* returned it in the current run and whether a query of
                     \* another category returned it too
    cr_fail,         \* history: <<>> until a search request of the current
                     \* run fails, then <<all_results at the first failure>>
    cr_late,         \* history: the hits a later query of the run returned
                     \* with an identifier not seen until then
    cr_call,         \* the method of the current or last call: "", "run",
                     \* "quick"
    cr_emitted,      \* history: the identifiers of the records appended to
                     \* the output list of any call so far, in order
    cr_dropped,      \* history: the identifiers run admitted and dropped as
                     \* irrelevant
    cr_call_ids,     \* history: the non-empty identifiers the searches of
                     \* the current call returned
    parsed_tools,    \* ToolDataParser.parsed_tools
    validation_errors, \* ToolDataParser.validation_errors
    ps_calls,        \* number of parse_zenodo_data calls made
    db,              \* the committed rows of table tools, in insertion order
    wr,              \* per writer: the state of its save_to_database call
    st_calls,        \* number of save_to_database calls started
    st_total,        \* history: sum of the counts returned so far
    st_failed,       \* history: whether any call met a store error
    st_overlap,      \* history: whether a call began while another was running
    files,           \* the files under base_dir: path -> content
    clock,           \* datetime.now(), in ticks of half a second
    sk_ret,          \* <<>> or <<what the last save_to_json/save_to_csv did>>
    sk_calls,        \* number of save_to_json/save_to_csv calls made
    stats,           \* <<>> or <<what the last get_statistics returned>>
    qr_result,       \* <<>> or <<what the last query_database returned>>
    pl_pc,           \* run_full_pipeline: "idle", "crawl", "parse", "json",
                     \* "csv", "db", "stats", "done", "raised"
    pl_runs,         \* number of pipeline processes started on the data
                     \* directory
    pl_db_before     \* history: the table when the process started

classifyVars == <<record, relevant, category>>
cleanVars == <<desc, cleaned>>
pageVars == <<sp_pc, sp_max_results, sp_all_results, sp_page, sp_requests,
              sp_last_len, sp_returned>>
crawlVars == <<seen_ids, cr_pc, cr_categories, cr_ci, cr_qi, cr_all_results,
               cr_result, cr_runs, cr_seen_before, cr_returned_by, cr_fail,
               cr_late, cr_call, cr_emitted, cr_dropped, cr_call_ids>>
parseVars == <<parsed_tools, validation_errors, ps_calls>>
storeVars == <<db, wr, st_calls, st_total, st_failed, st_overlap>>
sinkVars == <<files, clock, sk_ret, sk_calls>>
viewVars == <<stats, qr_result>>
pipeVars == <<pl_pc, pl_runs, pl_db_before>>
vars == <<classifyVars, cleanVars, pageVars, crawlVars, parseVars, storeVars,
          sinkVars, viewVars, pipeVars>>

(***************************************************************************)
(* The state of each component before it is used                           *)
(***************************************************************************)
ClassifyIdle ==
    /\ record = [title |-> <<>>, description |-> <<>>, keywords |-> <<>>]
    /\ relevant = <<>>
    /\ category = <<>>

CleanIdle ==
    /\ desc = <<>>
    /\ cleaned = <<>>

PageIdle ==
    /\ sp_pc = "idle"
    /\ sp_max_results = 0
    /\ sp_all_results = <<>>
    /\ sp_page = 1
    /\ sp_requests = 0
    /\ sp_last_len = -1
    /\ sp_returned = <<>>

\* ZenodoCrawler.__init__
CrawlIdle ==
    /\ seen_ids = {}
    /\ cr_pc = "idle"
    /\ cr_categories = <<>>
    /\ cr_ci = 1
    /\ cr_qi = 1
    /\ cr_all_results = <<>>
    /\ cr_result = <<>>
    /\ cr_runs = 0
    /\ cr_seen_before = {}
    /\ cr_returned_by = <<>>
    /\ cr_fail = <<>>
    /\ cr_late = {}
    /\ cr_call = ""
    /\ cr_emitted = <<>>
    /\ cr_dropped = {}
    /\ cr_call_ids = {}

\* ToolDataParser.__init__
ParseIdle ==
    /\ parsed_tools = <<>>
    /\ validation_errors = <<>>
    /\ ps_calls = 0

Writers == {1, 2}

\* A writer that is not inside save_to_database.
IdleWriter ==
    [pc |-> "idle", data |-> <<>>, idx |-> 1, inserted |-> 0, pending |-> <<>>,
     error |-> FALSE, ret |-> 0, before |-> 0]

\* DataStorage.__init__: the table exists and is empty
StoreIdle ==
    /\ db = <<>>
    /\ wr = [w \in Writers |-> IdleWriter]
    /\ st_calls = 0
    /\ st_total = 0
    /\ st_failed = FALSE
    /\ st_overlap = FALSE

\* DataStorage.__init__: the directories exist and hold no file
SinkIdle ==
    /\ files = <<>>
    /\ clock = 0
    /\ sk_ret = <<>>
    /\ sk_calls = 0
    /\ stats = <<>>
    /\ qr_result = <<>>

\* VerificationToolsPipeline.__init__
PipeIdle == pl_pc = "idle" /\ pl_runs = 0 /\ pl_db_before = <<>>

\* Every component as constructed.
AllIdle ==
    /\ ClassifyIdle /\ CleanIdle /\ PageIdle /\ CrawlIdle /\ ParseIdle /\ StoreIdle
    /\ SinkIdle /\ PipeIdle

(***************************************************************************)
(* Python values                                                           *)
(***************************************************************************)
None == <<>>
Some(s) == <<s>>
IsNone(o) == o = <<>>
Val(o) == o[1]

\* str(x) of an optional string: str(None) = 'None'
PyStr(o) == IF IsNone(o) THEN "None" ELSE Val(o)

\* s[i] as a one-character string
Ch(s, i) == SubSeq(s, i, i)

\* kw in text
Contains(kw, text) ==
    \E i \in 1..(Len(text) - Len(kw) + 1) : SubSeq(text, i, i + Len(kw) - 1) = kw

UpperChars == "ABCDEFGHIJKLMNOPQRSTUVWXYZ"
LowerChars == "abcdefghijklmnopqrstuvwxyz"

LowerChar(c) ==
    IF \E i \in 1..Len(UpperChars) : Ch(UpperChars, i) = c
    THEN LET i == CHOOSE k \in 1..Len(UpperChars) : Ch(UpperChars, k) = c
         IN  Ch(LowerChars, i)
    ELSE c

\* str.lower()
RECURSIVE Lower(_)
Lower(s) ==
    IF Len(s) = 0 THEN ""
    ELSE IF Len(s) = 1 THEN LowerChar(s)
    ELSE LET h == Len(s) \div 2
         IN  Lower(SubSeq(s, 1, h)) \o Lower(SubSeq(s, h + 1, Len(s)))

\* sep.join(list)
RECURSIVE Join(_, _)
Join(list, sep) ==
    IF Len(list) = 0 THEN ""
    ELSE IF Len(list) = 1 THEN list[1]
    ELSE list[1] \o sep \o Join(Tail(list), sep)

SetMin(S) == CHOOSE x \in S : \A y \in S : x <= y
SetMax(S) == CHOOSE x \in S : \A y \in S : x >= y

\* s repeated n times
RECURSIVE Rep(_, _)
Rep(s, n) ==
    IF n = 0 THEN ""
    ELSE IF n % 2 = 0 THEN LET h == Rep(s, n \div 2) IN h \o h
    ELSE s \o Rep(s, n - 1)

WhitespaceChars == {" ", "\t", "\n"}

\* str.strip(): leading and trailing whitespace removed
PyStrip(s) ==
    LET keep == {i \in 1..Len(s) : Ch(s, i) \notin WhitespaceChars}
    IN  IF keep = {} THEN "" ELSE SubSeq(s, SetMin(keep), SetMax(keep))

(***************************************************************************)
(* ZenodoCrawler.is_relevant_tool                                          *)
(***************************************************************************)
strong_keywords ==
    << "verifier", "prover", "model checker", "theorem prover",
       "static analyzer", "formal verification", "program analysis",
       "sat solver", "smt solver", "qbf solver", "termination prover",
       "neural network verification", "program verification",
       "software verification", "bounded model checking" >>

weak_keywords ==
    << "verification", "correctness", "termination", "complexity",
       "formal", "solver", "checker", "analysis", "proof",
       "specification", "invariant", "assertion", "contract" >>

exclusion_keywords ==
    << "biology", "medical", "clinical", "patient", "disease",
       "species", "ecological", "geographic", "survey", "questionnaire",
       "interview", "photograph", "museum", "archaeological" >>

\* any(kw in text for kw in kws)
AnyIn(kws, text) == \E i \in DOMAIN kws : Contains(kws[i], text)

\* sum(1 for kw in kws if kw in text)
CountIn(kws, text) == Cardinality({i \in DOMAIN kws : Contains(kws[i], text)})

RelevanceText(r) ==
    Lower(Join(<<PyStr(r.title), PyStr(r.description), Join(r.keywords, " ")>>, " "))

WeakThreshold == 2

\* Mutant: the strong-keyword test runs before the exclusion test.
is_relevant_tool_StrongFirst(r) ==
    LET text == RelevanceText(r)
    IN  IF AnyIn(strong_keywords, text) THEN TRUE
        ELSE IF AnyIn(exclusion_keywords, text) THEN FALSE
        ELSE CountIn(weak_keywords, text) >= WeakThreshold

\* Mutant: a single weak keyword is enough.
is_relevant_tool_WeakOne(r) ==
    LET text == RelevanceText(r)
    IN  IF AnyIn(exclusion_keywords, text) THEN FALSE
        ELSE IF AnyIn(strong_keywords, text) THEN TRUE
        ELSE CountIn(weak_keywords, text) >= 1

is_relevant_tool(r) ==
    LET text == RelevanceText(r)
    IN  IF AnyIn(exclusion_keywords, text) THEN FALSE
        ELSE IF AnyIn(strong_keywords, text) THEN TRUE
        ELSE CountIn(weak_keywords, text) >= WeakThreshold

(***************************************************************************)
(* ToolDataParser._categorize_tool                                         *)
(***************************************************************************)
TOOL_CATEGORIES ==
    << "functional_correctness", "termination", "complexity_bounds",
       "neural_network_verification", "qbf_solver", "other" >>

\* raised by str + None
TypeError == "TypeError"

CategoryText(r) ==
    Lower(Val(r.title) \o " " \o Val(r.description) \o " " \o Join(r.keywords, " "))

\* Mutant: the termination rule is tested before the neural rule.
CategoryOf_TerminationFirst(text) ==
    IF Contains("termination", text)
        THEN "termination"
    ELSE IF Contains("neural", text) \/ Contains("deep learning", text)
        THEN "neural_network_verification"
    ELSE IF Contains("complexity", text) \/ Contains("bounds", text)
        THEN "complexity_bounds"
    ELSE IF Contains("qbf", text) \/ Contains("boolean", text)
        THEN "qbf_solver"
    ELSE IF Contains("correctness", text) \/ Contains("verification", text)
        THEN "functional_correctness"
    ELSE "other"

CategoryOf(text) ==
    IF Contains("neural", text) \/ Contains("deep learning", text)
        THEN "neural_network_verification"
    ELSE IF Contains("termination", text)
        THEN "termination"
    ELSE IF Contains("complexity", text) \/ Contains("bounds", text)
        THEN "complexity_bounds"
    ELSE IF Contains("qbf", text) \/ Contains("boolean", text)
        THEN "qbf_solver"
    ELSE IF Contains("correctness", text) \/ Contains("verification", text)
        THEN "functional_correctness"
    ELSE "other"

_categorize_tool(r) ==
    IF IsNone(r.title) \/ IsNone(r.description) THEN TypeError
    ELSE CategoryOf(CategoryText(r))

(***************************************************************************)
(* Classifier inputs                                                       *)
(***************************************************************************)
Titles ==
    { Some("CBMC Bounded Model Checker"), Some("Patient Survey Tool"),
      Some(""), Some("Proof Assistant"), Some("Formal Methods"),
      Some("Neural Network Termination"), None }

Descriptions ==
    { Some("a verifier for clinical software"), Some("analysis"),
      Some("termination and complexity bounds"), Some("QBF boolean reasoning"),
      Some("deep learning correctness"), Some("<p>Verification</p>"),
      Some(""), None }

KeywordLists ==
    { <<>>, <<"proof">>, <<"analysis", "proof">>, <<"museum">>, <<"formal">> }

ClassifierInputs ==
    [title : Titles, description : Descriptions, keywords : KeywordLists]

ClassifyInit ==
    /\ record \in ClassifierInputs
    /\ relevant = <<>>
    /\ category = <<>>
    /\ CleanIdle
    /\ PageIdle
    /\ CrawlIdle
    /\ ParseIdle
    /\ StoreIdle /\ SinkIdle /\ PipeIdle

CallIsRelevant ==
    /\ relevant = <<>>
    /\ relevant' = <<is_relevant_tool(record)>>
    /\ UNCHANGED <<record, category, cleanVars, pageVars, crawlVars, parseVars, storeVars,
                   sinkVars, viewVars, pipeVars>>

CallCategorize ==
    /\ category = <<>>
    /\ category' = <<_categorize_tool(record)>>
    /\ UNCHANGED <<record, relevant, cleanVars, pageVars, crawlVars, parseVars, storeVars,
                   sinkVars, viewVars, pipeVars>>

ClassifyNext == CallIsRelevant \/ CallCategorize

SpecClassify == ClassifyInit /\ [][ClassifyNext]_vars

(***************************************************************************)
(* Claims about the classifier                                             *)
(***************************************************************************)
HasExclusion == AnyIn(exclusion_keywords, RelevanceText(record))
HasStrong == AnyIn(strong_keywords, RelevanceText(record))

\* C6: is_relevant_tool returns false for every record whose lowercase
\* title+description+keywords text contains an exclusion keyword, whatever
\* strong or weak keywords the text also contains.
C6_ExclusionWins ==
    (relevant # <<>> /\ HasExclusion) => relevant = <<FALSE>>

\* C6 witness: a record with a strong keyword and an exclusion keyword was
\* classified not relevant.
C6_Witness ==
    /\ relevant = <<FALSE>>
    /\ HasExclusion
    /\ HasStrong

\* The weak keywords as the specification lists them (twelve words).
SpecWeakKeywords ==
    << "verification", "correctness", "termination", "complexity",
       "solver", "checker", "analysis", "proof",
       "specification", "invariant", "assertion", "contract" >>

\* The specification's list plus the word "formal".
AmendedWeakKeywords == SpecWeakKeywords \o << "formal" >>

\* C7 as stated: without exclusion and strong keywords the result is true
\* exactly when at least two of the specification's twelve weak keywords
\* occur in the text.
C7_Original ==
    (relevant # <<>> /\ ~HasExclusion /\ ~HasStrong)
        => (Val(relevant) <=> CountIn(SpecWeakKeywords, RelevanceText(record)) >= 2)

\* C7 amended: without exclusion and strong keywords the result is true
\* exactly when at least two distinct words of the specification's list
\* extended by "formal" occur in the text.
C7_WeakThreshold ==
    (relevant # <<>> /\ ~HasExclusion /\ ~HasStrong)
        => (Val(relevant) <=> CountIn(AmendedWeakKeywords, RelevanceText(record)) >= 2)

\* C7 witness: "formal" plus exactly one of the twelve listed words, no strong
\* and no exclusion keyword, classified relevant.
C7_Witness ==
    /\ relevant = <<TRUE>>
    /\ ~HasExclusion /\ ~HasStrong
    /\ CountIn(SpecWeakKeywords, RelevanceText(record)) = 1
    /\ Contains("formal", RelevanceText(record))

\* The categorisation rules in their fixed order.
CategoryRules ==
    << [kws |-> {"neural", "deep learning"}, cat |-> "neural_network_verification"],
       [kws |-> {"termination"},             cat |-> "termination"],
       [kws |-> {"complexity", "bounds"},    cat |-> "complexity_bounds"],
       [kws |-> {"qbf", "boolean"},          cat |-> "qbf_solver"],
       [kws |-> {"correctness", "verification"}, cat |-> "functional_correctness"] >>

RuleMatches(i, text) == \E kw \in CategoryRules[i].kws : Contains(kw, text)

\* C8: whenever _categorize_tool returns, the result is one of the six
\* categories and is the category of the earliest rule that matches the text
\* (order neural/deep learning, termination, complexity/bounds, qbf/boolean,
\* correctness/verification), and "other" when no rule matches.
C8_FirstRuleWins ==
    (category # <<>> /\ Val(category) # TypeError) =>
        LET text == CategoryText(record)
            hits == {i \in DOMAIN CategoryRules : RuleMatches(i, text)}
        IN  /\ \E k \in DOMAIN TOOL_CATEGORIES : TOOL_CATEGORIES[k] = Val(category)
            /\ hits = {} => Val(category) = "other"
            /\ hits # {} =>
                 \E i \in hits : /\ \A j \in hits : i <= j
                                 /\ Val(category) = CategoryRules[i].cat

\* C8 witness: a text with both "neural network" and "termination" was
\* categorised neural_network_verification.
C8_Witness ==
    /\ category = <<"neural_network_verification">>
    /\ Contains("neural network", CategoryText(record))
    /\ Contains("termination", CategoryText(record))

(***************************************************************************)
(* ToolDataParser._clean_description                                       *)
(***************************************************************************)
\* End of the match of the pattern <[^<]+?> that starts at the "<" at
\* position i: the first ">" at least two positions on with no "<" in
\* between; 0 when the pattern does not match at i.
TagEnd(s, i) ==
    LET later == {k \in (i + 1)..Len(s) : Ch(s, k) = "<"}
        stop  == IF later = {} THEN Len(s) + 1 ELSE SetMin(later)
        ends  == {j \in (i + 2)..(stop - 1) : Ch(s, j) = ">"}
    IN  IF ends = {} THEN 0 ELSE SetMin(ends)

\* re.sub('<[^<]+?>', '', s), scanning from position i
RECURSIVE HtmlStripFrom(_, _)
HtmlStripFrom(s, i) ==
    LET starts == {p \in i..Len(s) : Ch(s, p) = "<" /\ TagEnd(s, p) # 0}
    IN  IF starts = {} THEN SubSeq(s, i, Len(s))
        ELSE LET p == SetMin(starts)
             IN  SubSeq(s, i, p - 1) \o HtmlStripFrom(s, TagEnd(s, p) + 1)

HtmlStrip(s) == HtmlStripFrom(s, 1)

DescLimit == 500
DescKeep == 497

\* Mutant: the ellipsis is appended after 500 kept characters.
Truncate_KeepLimit(d) ==
    IF Len(d) > DescLimit THEN SubSeq(d, 1, DescLimit) \o "..." ELSE d

\* if len(desc) > 500: desc = desc[:497] + "..."
Truncate(d) ==
    IF Len(d) > DescLimit THEN SubSeq(d, 1, DescKeep) \o "..." ELSE d

_clean_description(d) ==
    IF IsNone(d) \/ Val(d) = "" THEN ""
    ELSE PyStrip(Truncate(HtmlStrip(Val(d))))

DescPrefixes == {"", " ", "<b>", "<p> ", "a<"}
DescBodyLens == {0, 3, 495, 496, 497, 498, 499, 500, 501, 600}
DescSuffixes == {"", " ", "</b>", " </p>", "<i>x</i>y"}

CleanInputs ==
    {None} \cup
    { Some(p \o Rep("a", n) \o q) : p \in DescPrefixes, n \in DescBodyLens, q \in DescSuffixes }

CleanInit ==
    /\ desc \in CleanInputs
    /\ cleaned = <<>>
    /\ ClassifyIdle /\ PageIdle /\ CrawlIdle /\ ParseIdle /\ StoreIdle
    /\ SinkIdle /\ PipeIdle

CallCleanDescription ==
    /\ cleaned = <<>>
    /\ cleaned' = <<_clean_description(desc)>>
    /\ UNCHANGED desc

CleanNext ==
    /\ CallCleanDescription
    /\ UNCHANGED <<classifyVars, pageVars, crawlVars, parseVars, storeVars,
                   sinkVars, viewVars, pipeVars>>

SpecClean == CleanInit /\ [][CleanNext]_vars

(***************************************************************************)
(* Claims about _clean_description                                         *)
(***************************************************************************)
Stripped == HtmlStrip(Val(desc))

\* C9 as stated: an HTML-stripped text longer than 500 characters is stored as
\* its first 497 characters followed by "..." (500 characters), and a text of
\* 500 characters or fewer is stored unchanged.
C9_Original ==
    (cleaned # <<>> /\ ~IsNone(desc)) =>
        IF Len(Stripped) > 500
        THEN /\ Val(cleaned) = SubSeq(Stripped, 1, 497) \o "..."
             /\ Len(Val(cleaned)) = 500
        ELSE Val(cleaned) = Stripped

\* r is t without its leading and trailing whitespace
IsTrimOf(r, t) ==
    /\ r # "" => /\ Ch(r, 1) \notin WhitespaceChars
                 /\ Ch(r, Len(r)) \notin WhitespaceChars
    /\ \E i \in 1..(Len(t) + 1) :
          /\ \A k \in 1..(i - 1) : Ch(t, k) \in WhitespaceChars
          /\ i + Len(r) - 1 <= Len(t)
          /\ SubSeq(t, i, i + Len(r) - 1) = r
          /\ \A k \in (i + Len(r))..Len(t) : Ch(t, k) \in WhitespaceChars

\* C9 amended: an HTML-stripped text longer than 500 characters is stored as
\* its first 497 characters followed by "..." with leading and trailing
\* whitespace then removed (exactly 500 characters when the text does not
\* begin with whitespace); a text of 500 characters or fewer is stored as the
\* HTML-stripped text with leading and trailing whitespace removed.
C9_TruncateThenTrim ==
    (cleaned # <<>> /\ ~IsNone(desc)) =>
        IF Len(Stripped) > 500
        THEN /\ IsTrimOf(Val(cleaned), SubSeq(Stripped, 1, 497) \o "...")
             /\ Ch(Stripped, 1) \notin WhitespaceChars
                  => /\ Val(cleaned) = SubSeq(Stripped, 1, 497) \o "..."
                     /\ Len(Val(cleaned)) = 500
        ELSE IsTrimOf(Val(cleaned), Stripped)

\* C9 witness: a text of more than 500 characters that begins with whitespace
\* was truncated and trimmed to fewer than 500 characters.
C9_Witness ==
    /\ cleaned # <<>> /\ ~IsNone(desc)
    /\ Len(Stripped) > 500
    /\ Ch(Stripped, 1) \in WhitespaceChars
    /\ Len(Val(cleaned)) < 500
    /\ Len(Val(cleaned)) > 3

(***************************************************************************)
(* ZenodoCrawler.search_with_pagination                                    *)
(***************************************************************************)
page_size == 50

\* Lengths of the pages search_verification_tools may return for size=50
\* (0 is also what a failed request returns).
PageLens == {0, 1, 30, 49, page_size}
MaxResultsChoices == {0, 1, 30, 50, 75, 100, 120, 150}

\* The hits of one page: k records, each tagged with its page and rank.
PageHits(pg, k) == [i \in 1..k |-> [page |-> pg, rank |-> i]]

\* Mutant: a short page does not end the loop.
AfterPage_NoBreak(k) == "loop"

\* if len(results) < page_size: break
AfterPage(k) == IF k < page_size THEN "return" ELSE "loop"

\* all_results[:max_results]
Slice(list, n) == SubSeq(list, 1, IF Len(list) < n THEN Len(list) ELSE n)

PageInit ==
    /\ sp_pc = "loop"
    /\ sp_max_results \in MaxResultsChoices
    /\ sp_all_results = <<>>
    /\ sp_page = 1
    /\ sp_requests = 0
    /\ sp_last_len = -1
    /\ sp_returned = <<>>
    /\ ClassifyIdle /\ CleanIdle /\ CrawlIdle /\ ParseIdle /\ StoreIdle
    /\ SinkIdle /\ PipeIdle

\* One iteration of the while loop: a page request and what follows it.
PageIteration ==
    /\ sp_pc = "loop"
    /\ Len(sp_all_results) < sp_max_results
    /\ \E k \in PageLens :
         LET results == PageHits(sp_page, k)
         IN  /\ sp_requests' = sp_requests + 1
             /\ sp_last_len' = k
             /\ IF k = 0
                THEN /\ sp_pc' = "return"
                     /\ UNCHANGED <<sp_all_results, sp_page>>
                ELSE /\ sp_all_results' = sp_all_results \o results
                     /\ sp_page' = sp_page + 1
                     /\ sp_pc' = AfterPage(k)
    /\ UNCHANGED <<sp_max_results, sp_returned>>

\* The while condition is false.
PageLoopExit ==
    /\ sp_pc = "loop"
    /\ ~(Len(sp_all_results) < sp_max_results)
    /\ sp_pc' = "return"
    /\ UNCHANGED <<sp_max_results, sp_all_results, sp_page, sp_requests,
                   sp_last_len, sp_returned>>

PageReturn ==
    /\ sp_pc = "return"
    /\ sp_returned' = Slice(sp_all_results, sp_max_results)
    /\ sp_pc' = "done"
    /\ UNCHANGED <<sp_max_results, sp_all_results, sp_page, sp_requests, sp_last_len>>

NotPage == <<classifyVars, cleanVars, crawlVars, parseVars, storeVars,
                   sinkVars, viewVars, pipeVars>>

PageNext ==
    \/ PageIteration /\ UNCHANGED NotPage
    \/ PageLoopExit /\ UNCHANGED NotPage
    \/ PageReturn /\ UNCHANGED NotPage

\* Every request returns (a response or a failure), so the sequential loop
\* always takes its next step.
SpecPaginate == PageInit /\ [][PageNext]_vars /\ WF_vars(PageNext)

(***************************************************************************)
(* Claims about search_with_pagination                                     *)
(***************************************************************************)
ShortPageSeen == sp_last_len # -1 /\ sp_last_len < 50

\* C10: search_with_pagination always terminates; once a page has returned
\* fewer than 50 results (30, or none) no further page request is issued; no
\* request is issued once the accumulated count has reached max_results; and
\* the returned list holds at most max_results records.
C10_PaginationTerminates ==
    /\ <>(sp_pc = "done")
    /\ [][ShortPageSeen => sp_requests' = sp_requests]_vars
    /\ [][Len(sp_all_results) >= sp_max_results => sp_requests' = sp_requests]_vars
    /\ [](sp_pc = "done" => Len(sp_returned) <= sp_max_results)

\* C10 witness: the call ended after a full page followed by a page of 30.
C10_Witness ==
    /\ sp_pc = "done"
    /\ sp_requests = 2
    /\ sp_last_len = 30
    /\ Len(sp_returned) = 80

(***************************************************************************)
(* ZenodoCrawler.run                                                       *)
(***************************************************************************)
CategoryKeys ==
    << "functional_correctness", "termination", "complexity_bounds",
       "neural_network_verification", "qbf_solver" >>

SEARCH_QUERIES ==
    [ functional_correctness |->
          << "program verification", "formal verification software",
             "model checker", "theorem prover" >>,
      termination |-> << "termination analysis", "termination prover" >>,
      complexity_bounds |-> << "complexity analysis tool", "resource analysis" >>,
      neural_network_verification |->
          << "neural network verification", "DNN verification" >>,
      qbf_solver |-> << "QBF solver", "quantified boolean formula" >> ]

\* A record identifier as the API delivers it: a JSON number, a JSON string,
\* or no "id" key at all.
IntId(v) == [kind |-> "int", v |-> v]
StrId(v) == [kind |-> "str", v |-> v]
AbsentId == [kind |-> "absent", v |-> ""]
NoneId == [kind |-> "none", v |-> ""]

\* str(record.get('id', ''))
IdStr(id) ==
    IF id.kind = "absent" THEN ""
    ELSE IF id.kind = "none" THEN "None"
    ELSE id.v

\* The hits the search API may deliver.
RawHits ==
    { [id |-> IntId("1"), title |-> Some("CBMC Bounded Model Checker"),
       description |-> Some("<p>Bounded model checking for C</p>"),
       keywords |-> <<"verification">>,
       access_right |-> Some("open"), license |-> Some("mit")],
      [id |-> IntId("2"), title |-> Some("Patient Survey Tool"),
       description |-> Some("verification of patient records"),
       keywords |-> <<>>,
       access_right |-> Some("open"), license |-> None],
      [id |-> IntId("3"), title |-> Some(" T2 "),
       description |-> Some("a termination prover"),
       keywords |-> <<>>,
       access_right |-> Some("restricted"), license |-> Some("gpl")],
      [id |-> StrId("1"), title |-> Some("AProVE"),
       description |-> Some("termination and complexity analysis"),
       keywords |-> <<"termination">>,
       access_right |-> None, license |-> Some("bsd")],
      [id |-> AbsentId, title |-> Some("Z3 SMT solver"),
       description |-> Some("an SMT solver"),
       keywords |-> <<>>,
       access_right |-> Some("open"), license |-> None],
      [id |-> IntId("4"), title |-> Some("Marabou verifier"),
       description |-> None,
       keywords |-> <<"neural network verification">>,
       access_right |-> None, license |-> None] }

\* A record with an empty title whose description names a verification tool.
EmptyTitleHit ==
    [id |-> IntId("5"), title |-> Some(""),
     description |-> Some("a bounded model checker for Java"),
     keywords |-> <<>>,
     access_right |-> Some("open"), license |-> None]

AllHits == RawHits \cup {EmptyTitleHit}

MaxHits == 2
MaxRuns == 2

RECURSIVE SeqsUpTo(_, _)
SeqsUpTo(S, n) ==
    IF n = 0 THEN {<<>>}
    ELSE LET shorter == SeqsUpTo(S, n - 1)
         IN  shorter \cup {Append(q, x) : q \in shorter, x \in S}

\* What search_verification_tools may return for one request: a list of hits
\* (the empty list also when the request failed).
Responses == SeqsUpTo(RawHits, MaxHits)

\* The categories arguments run is called with (None selects every category).
CategoryArgs ==
    { Some(<<>>),
      Some(<<"termination", "qbf_solver">>),
      Some(<<"qbf_solver", "bogus", "termination">>),
      Some(<<"termination", "termination">>) }

\* ZenodoCrawler.extract_relevant_data
extract_relevant_data(h) ==
    [id |-> IF h.id.kind = "absent" THEN NoneId ELSE h.id,
     title |-> h.title,
     description |-> h.description,
     keywords |-> h.keywords,
     access_right |-> h.access_right,
     license |-> h.license]

\* Mutant: the query string is stored as the category.
Tagged_QueryAsCategory(processed, query, cat) ==
    [id |-> processed.id, title |-> processed.title,
     description |-> processed.description, keywords |-> processed.keywords,
     access_right |-> processed.access_right, license |-> processed.license,
     search_query |-> query, search_category |-> query]

\* processed['search_query'] = query; processed['search_category'] = category
Tagged(processed, query, cat) ==
    [id |-> processed.id, title |-> processed.title,
     description |-> processed.description, keywords |-> processed.keywords,
     access_right |-> processed.access_right, license |-> processed.license,
     search_query |-> query, search_category |-> cat]

\* is_relevant_tool(processed) for each hit the API may deliver (the search
\* tags are not part of the text it reads)
RelevantHit ==
    [h \in AllHits |-> is_relevant_tool(Tagged(extract_relevant_data(h), "", ""))]

\* Mutant: the identifier is not added to seen_ids.
Admit_NoAdd(seen, id) == seen

\* self.seen_ids.add(record_id)
Admit(seen, id) == seen \cup {id}

\* The body of "for record in results": st is [seen, results].
ProcessHit(st, h, query, cat) ==
    LET record_id == IdStr(h.id)
    IN  IF record_id # "" /\ record_id \notin st.seen
        THEN LET processed == Tagged(extract_relevant_data(h), query, cat)
             IN  [seen |-> Admit(st.seen, record_id),
                  results |-> IF RelevantHit[h]
                              THEN Append(st.results, processed)
                              ELSE st.results]
        ELSE st

RECURSIVE ProcessHits(_, _, _, _)
ProcessHits(st, hits, query, cat) ==
    IF hits = <<>> THEN st
    ELSE ProcessHits(ProcessHit(st, Head(hits), query, cat), Tail(hits), query, cat)

NotReturned == [first |-> "", multi |-> FALSE]

\* The hits whose history is kept: those that can reach the output.
TrackedHits == {h \in RawHits : IdStr(h.id) # "" /\ RelevantHit[h]}

\* History of which categories' queries returned each tracked hit in this run.
NoteReturned(by, hits, cat) ==
    [h \in DOMAIN by |->
        IF \E i \in DOMAIN hits : hits[i] = h
        THEN IF by[h].first = "" THEN [first |-> cat, multi |-> FALSE]
             ELSE [first |-> by[h].first, multi |-> by[h].multi \/ by[h].first # cat]
        ELSE by[h]]

\* run(categories): the code before the loops
StartRunOf(args) ==
    /\ cr_pc \in {"idle", "done"}
    /\ cr_runs < MaxRuns
    /\ ps_calls = 0
    /\ \E arg \in args :
          cr_categories' = IF IsNone(arg) THEN CategoryKeys ELSE Val(arg)
    /\ cr_pc' = "running"
    /\ cr_ci' = 1
    /\ cr_qi' = 1
    /\ cr_all_results' = <<>>
    /\ cr_result' = <<>>
    /\ cr_runs' = cr_runs + 1
    /\ cr_seen_before' = seen_ids
    /\ cr_returned_by' = [h \in TrackedHits |-> NotReturned]
    /\ cr_fail' = <<>>
    /\ cr_late' = {}
    /\ cr_call' = "run"
    /\ cr_call_ids' = {}
    /\ UNCHANGED <<seen_ids, cr_emitted, cr_dropped>>

StartRun == StartRunOf(CategoryArgs)

\* if category not in self.SEARCH_QUERIES: continue
RunSkipUnknown ==
    /\ cr_pc = "running"
    /\ cr_ci <= Len(cr_categories)
    /\ cr_categories[cr_ci] \notin DOMAIN SEARCH_QUERIES
    /\ cr_ci' = cr_ci + 1
    /\ cr_qi' = 1
    /\ UNCHANGED <<seen_ids, cr_pc, cr_categories, cr_all_results, cr_result,
                   cr_runs, cr_seen_before, cr_returned_by, cr_fail, cr_late,
                   cr_call, cr_emitted, cr_dropped, cr_call_ids>>

\* What one search request can do: deliver a page of hits, fail in transport
\* (session.get raises a RequestException) or answer with an error status
\* (raise_for_status raises HTTPError, a RequestException).
RequestOutcomes ==
    {[kind |-> "ok", hits |-> r] : r \in Responses}
        \cup {[kind |-> "transport", hits |-> <<>>], [kind |-> "http", hits |-> <<>>]}

\* Mutant: the RequestException is not caught and leaves the function.
search_verification_tools_Propagate(outcome) ==
    IF outcome.kind = "ok"
    THEN [raised |-> FALSE, hits |-> outcome.hits]
    ELSE [raised |-> TRUE, hits |-> <<>>]

\* ZenodoCrawler.search_verification_tools: what the caller gets for a
\* request outcome (except requests.RequestException: return [])
search_verification_tools(outcome) ==
    IF outcome.kind = "ok"
    THEN [raised |-> FALSE, hits |-> outcome.hits]
    ELSE [raised |-> FALSE, hits |-> <<>>]

\* The hits of a response that run meets with an identifier it has not seen:
\* non-empty str(id), not in seen, not carried by an earlier hit of the page.
FreshHits(seen, hits) ==
    {h \in TrackedHits :
        \E i \in DOMAIN hits :
            /\ hits[i] = h
            /\ IdStr(h.id) \notin seen
            /\ \A j \in 1..(i - 1) : IdStr(hits[j].id) # IdStr(h.id)}

\* The identifiers of the records of an output list, in order.
IdsOf(list) == [i \in DOMAIN list |-> IdStr(list[i].id)]

Range(f) == {f[i] : i \in DOMAIN f}

\* The records a step appended to an output list.
Added(before, after) == SubSeq(after, Len(before) + 1, Len(after))

\* The non-empty str(id) of the hits of a response.
ReturnedIds(hits) == {IdStr(hits[i].id) : i \in DOMAIN hits} \ {""}

\* One query of the current category: the search and the loop over its hits
\* (track: which history is kept, "none", "returned", "failure" or
\* "calls"; outcomes: what the request can do). run has
\* no try block: an exception raised by the search would end the call.
RunQueryStep(track, outcomes) ==
    /\ cr_pc = "running"
    /\ cr_ci <= Len(cr_categories)
    /\ cr_categories[cr_ci] \in DOMAIN SEARCH_QUERIES
    /\ LET cat == cr_categories[cr_ci]
           queries == SEARCH_QUERIES[cat]
           query == queries[cr_qi]
       IN  \E outcome \in outcomes :
             LET got == search_verification_tools(outcome)
                 results == got.hits
                 st == ProcessHits([seen |-> seen_ids, results |-> cr_all_results],
                                   results, query, cat)
             IN  IF got.raised
                 THEN /\ cr_pc' = "raised"
                      /\ UNCHANGED <<seen_ids, cr_all_results, cr_returned_by,
                                     cr_fail, cr_late, cr_qi, cr_ci, cr_emitted,
                                     cr_dropped, cr_call_ids>>
                 ELSE /\ seen_ids' = st.seen
                      /\ cr_all_results' = st.results
                      /\ cr_returned_by' =
                            IF track = "returned"
                            THEN NoteReturned(cr_returned_by, results, cat)
                            ELSE cr_returned_by
                      /\ cr_fail' =
                            IF track = "failure" /\ outcome.kind # "ok" /\ cr_fail = <<>>
                            THEN <<cr_all_results>>
                            ELSE cr_fail
                      /\ cr_late' =
                            IF track = "failure" /\ cr_fail # <<>>
                            THEN cr_late \cup FreshHits(seen_ids, results)
                            ELSE cr_late
                      /\ IF track = "calls"
                         THEN /\ cr_emitted' =
                                    cr_emitted \o IdsOf(Added(cr_all_results, st.results))
                              /\ cr_dropped' =
                                    cr_dropped \cup
                                      ((st.seen \ seen_ids)
                                          \ Range(IdsOf(Added(cr_all_results, st.results))))
                              /\ cr_call_ids' = cr_call_ids \cup ReturnedIds(results)
                         ELSE UNCHANGED <<cr_emitted, cr_dropped, cr_call_ids>>
                      /\ IF cr_qi < Len(queries)
                         THEN cr_qi' = cr_qi + 1 /\ cr_ci' = cr_ci
                         ELSE cr_qi' = 1 /\ cr_ci' = cr_ci + 1
                      /\ UNCHANGED cr_pc
    /\ UNCHANGED <<cr_categories, cr_result, cr_runs, cr_seen_before, cr_call>>

\* self.crawled_data = all_results; return all_results
RunReturn ==
    /\ cr_pc = "running"
    /\ cr_ci > Len(cr_categories)
    /\ cr_result' = cr_all_results
    /\ cr_pc' = "done"
    /\ UNCHANGED <<seen_ids, cr_categories, cr_ci, cr_qi, cr_all_results,
                   cr_runs, cr_seen_before, cr_returned_by, cr_fail, cr_late,
                   cr_call, cr_emitted, cr_dropped, cr_call_ids>>

RunQuery == RunQueryStep("none", RequestOutcomes)

RunQueryTracked == RunQueryStep("returned", RequestOutcomes)

RunQueryFailureTracked == RunQueryStep("failure", RequestOutcomes)

NotCrawl == <<classifyVars, cleanVars, pageVars, parseVars, storeVars,
                   sinkVars, viewVars, pipeVars>>

CrawlNext ==
    \/ StartRun /\ UNCHANGED NotCrawl
    \/ RunSkipUnknown /\ UNCHANGED NotCrawl
    \/ RunQuery /\ UNCHANGED NotCrawl
    \/ RunReturn /\ UNCHANGED NotCrawl

\* Any number of run calls (up to MaxRuns) on one crawler.
SpecCrawl == AllIdle /\ [][CrawlNext]_vars

\* One run call on a new crawler, with the history of its failed requests.
FirstRun ==
    /\ cr_runs = 0
    /\ StartRun

FailureNext ==
    \/ FirstRun /\ UNCHANGED NotCrawl
    \/ RunSkipUnknown /\ UNCHANGED NotCrawl
    \/ RunQueryFailureTracked /\ UNCHANGED NotCrawl
    \/ RunReturn /\ UNCHANGED NotCrawl

SpecCrawlFailure == AllIdle /\ [][FailureNext]_vars

\* The hits the searches deliver over a sequence of calls: relevant records,
\* an irrelevant one, and a relevant one whose identifier has the same text
\* as another's.
MaxCallHits == 2

CallHits == {h \in RawHits : IdStr(h.id) \in {"1", "2", "3"}}

\* What one search request can do when the API holds the given hits.
OutcomesOver(hits, n) ==
    {[kind |-> "ok", hits |-> r] : r \in SeqsUpTo(hits, n)}
        \cup {[kind |-> "transport", hits |-> <<>>]}

CallOutcomes == OutcomesOver(CallHits, MaxCallHits)

RunQueryCallsTracked == RunQueryStep("calls", CallOutcomes)

\* run_quick: quick_queries
QUICK_QUERIES ==
    << "program verification tool", "termination prover",
       "complexity analysis tool", "neural network verification", "QBF solver" >>

\* Mutant: run_quick does not look the identifier up in seen_ids.
QuickFresh_IgnoreSeen(seen, record_id) == record_id # ""

\* if record_id and record_id not in self.seen_ids
QuickFresh(seen, record_id) == record_id # "" /\ record_id \notin seen

\* The body of run_quick's "for record in results": no search tags and no
\* relevance check.
ProcessQuickHit(st, h) ==
    LET record_id == IdStr(h.id)
    IN  IF QuickFresh(st.seen, record_id)
        THEN [seen |-> Admit(st.seen, record_id),
              results |-> Append(st.results, extract_relevant_data(h))]
        ELSE st

RECURSIVE ProcessQuickHits(_, _)
ProcessQuickHits(st, hits) ==
    IF hits = <<>> THEN st
    ELSE ProcessQuickHits(ProcessQuickHit(st, Head(hits)), Tail(hits))

\* run_quick(): the code before the loop
StartQuick ==
    /\ cr_pc \in {"idle", "done"}
    /\ cr_runs < MaxRuns
    /\ ps_calls = 0
    /\ cr_pc' = "quick"
    /\ cr_call' = "quick"
    /\ cr_qi' = 1
    /\ cr_all_results' = <<>>
    /\ cr_result' = <<>>
    /\ cr_runs' = cr_runs + 1
    /\ cr_seen_before' = seen_ids
    /\ cr_call_ids' = {}
    /\ UNCHANGED <<seen_ids, cr_categories, cr_ci, cr_returned_by, cr_fail, cr_late,
                   cr_emitted, cr_dropped>>

\* One query of run_quick: the search and the loop over its hits.
QuickQuery ==
    /\ cr_pc = "quick"
    /\ cr_qi <= Len(QUICK_QUERIES)
    /\ \E outcome \in CallOutcomes :
          LET results == search_verification_tools(outcome).hits
              st == ProcessQuickHits([seen |-> seen_ids, results |-> cr_all_results],
                                     results)
          IN  /\ seen_ids' = st.seen
              /\ cr_all_results' = st.results
              /\ cr_emitted' = cr_emitted \o IdsOf(Added(cr_all_results, st.results))
              /\ cr_call_ids' = cr_call_ids \cup ReturnedIds(results)
    /\ cr_qi' = cr_qi + 1
    /\ UNCHANGED <<cr_pc, cr_call, cr_categories, cr_ci, cr_result, cr_runs,
                   cr_seen_before, cr_returned_by, cr_fail, cr_late, cr_dropped>>

\* return all_results (self.crawled_data is left as it was)
QuickReturn ==
    /\ cr_pc = "quick"
    /\ cr_qi > Len(QUICK_QUERIES)
    /\ cr_result' = cr_all_results
    /\ cr_pc' = "done"
    /\ UNCHANGED <<seen_ids, cr_call, cr_categories, cr_ci, cr_qi, cr_all_results,
                   cr_runs, cr_seen_before, cr_returned_by, cr_fail, cr_late,
                   cr_emitted, cr_dropped, cr_call_ids>>

CallsNext ==
    \/ StartRun /\ UNCHANGED NotCrawl
    \/ RunSkipUnknown /\ UNCHANGED NotCrawl
    \/ RunQueryCallsTracked /\ UNCHANGED NotCrawl
    \/ RunReturn /\ UNCHANGED NotCrawl
    \/ StartQuick /\ UNCHANGED NotCrawl
    \/ QuickQuery /\ UNCHANGED NotCrawl
    \/ QuickReturn /\ UNCHANGED NotCrawl

\* Any sequence of run and run_quick calls (up to MaxRuns) on one crawler.
SpecCrawlCalls == AllIdle /\ [][CallsNext]_vars

(***************************************************************************)
(* ToolDataParser.parse_zenodo_data                                        *)
(***************************************************************************)
\* The record as extract_relevant_data built it, without the search tags.
Untagged(item) ==
    [id |-> item.id, title |-> item.title, description |-> item.description,
     keywords |-> item.keywords, access_right |-> item.access_right,
     license |-> item.license]

\* _standardize_tool_data raises when _categorize_tool does.
StandardizeRaises(item) == _categorize_tool(item) = TypeError

\* ToolDataParser._standardize_tool_data (when it does not raise)
_standardize_tool_data(item) ==
    [name |-> PyStrip(Val(item.title)),
     description |-> _clean_description(item.description),
     category |-> _categorize_tool(item),
     source |-> "zenodo",
     source_id |-> item.id,
     keywords |-> item.keywords,
     license |-> item.access_right]

MinNameLen == 3

\* ToolDataParser._validate_tool_data
_validate_tool_data(tool) ==
    /\ tool.name # ""
    /\ tool.category # ""
    /\ tool.source # ""
    /\ ~(Len(tool.name) < MinNameLen)

\* Mutant: a tool that fails validation is kept.
ParseOutcome_KeepInvalid(item) ==
    IF StandardizeRaises(item)
    THEN [kind |-> "error", item |-> item.id, error |-> TypeError]
    ELSE [kind |-> "tool", tool |-> _standardize_tool_data(item)]

\* What the loop body of parse_zenodo_data does with one item.
ParseOutcome(item) ==
    IF StandardizeRaises(item)
    THEN [kind |-> "error", item |-> item.id, error |-> TypeError]
    ELSE LET tool == _standardize_tool_data(item)
         IN  IF _validate_tool_data(tool)
             THEN [kind |-> "tool", tool |-> tool]
             ELSE [kind |-> "invalid"]

\* The outcome for each record the crawler can hand over.
OutcomeOf ==
    [p \in {extract_relevant_data(h) : h \in AllHits} |-> ParseOutcome(p)]

RECURSIVE ParsedOf(_)
ParsedOf(raw_data) ==
    IF raw_data = <<>> THEN <<>>
    ELSE LET out == OutcomeOf[Untagged(Head(raw_data))]
         IN  (IF out.kind = "tool" THEN <<out.tool>> ELSE <<>>) \o ParsedOf(Tail(raw_data))

RECURSIVE ErrorsOf(_)
ErrorsOf(raw_data) ==
    IF raw_data = <<>> THEN <<>>
    ELSE LET out == OutcomeOf[Untagged(Head(raw_data))]
         IN  (IF out.kind = "error"
              THEN <<[item |-> out.item, error |-> out.error]>>
              ELSE <<>>) \o ErrorsOf(Tail(raw_data))

\* run_parse: parse_zenodo_data(raw_data) on what run returned
Parse ==
    /\ cr_pc = "done"
    /\ ps_calls = 0
    /\ parsed_tools' = ParsedOf(cr_result)
    /\ validation_errors' = validation_errors \o ErrorsOf(cr_result)
    /\ ps_calls' = ps_calls + 1
    /\ UNCHANGED crawlVars

\* run_crawl: one run call on a new crawler
PipelineStart ==
    /\ cr_runs = 0
    /\ StartRun

NotPipeline == <<classifyVars, cleanVars, pageVars, storeVars, sinkVars, viewVars,
                 pipeVars>>

PipelineNext ==
    \/ PipelineStart /\ UNCHANGED NotCrawl
    \/ RunSkipUnknown /\ UNCHANGED NotCrawl
    \/ RunQueryTracked /\ UNCHANGED NotCrawl
    \/ RunReturn /\ UNCHANGED NotCrawl
    \/ Parse /\ UNCHANGED NotPipeline

\* run_full_pipeline up to the parse phase.
SpecPipeline == AllIdle /\ [][PipelineNext]_vars

(***************************************************************************)
(* DataStorage.save_to_database                                            *)
(***************************************************************************)
MaxBatch == 2
MaxCalls == 2

\* The canonical records save_to_database is called with. A None name
\* violates the NOT NULL constraint of column name.
StoreItems ==
    { [name |-> Some("CBMC"), category |-> "functional_correctness",
       source |-> "zenodo", source_id |-> IntId("1")],
      [name |-> Some("AProVE"), category |-> "termination",
       source |-> "github", source_id |-> StrId("1")],
      [name |-> Some("KoAT"), category |-> "complexity_bounds",
       source |-> "zenodo", source_id |-> IntId("2")],
      [name |-> None, category |-> "other",
       source |-> "zenodo", source_id |-> IntId("3")],
      [name |-> Some("Marabou"), category |-> "neural_network_verification",
       source |-> "zenodo", source_id |-> AbsentId],
      [name |-> Some("Z3"), category |-> "functional_correctness",
       source |-> "zenodo", source_id |-> NoneId] }

Batches == SeqsUpTo(StoreItems, MaxBatch)

\* item.get('source_id', '') as column source_id (TEXT affinity) holds it and
\* as the lookup compares it
SourceIdText(item) ==
    IF item.source_id.kind = "none" THEN None ELSE Some(IdStr(item.source_id))

\* The row INSERT adds for item; id is the AUTOINCREMENT key.
RowOf(item, id) ==
    [id |-> id, name |-> Val(item.name), category |-> item.category,
     source |-> item.source, source_id |-> SourceIdText(item), data |-> item]

\* The rows writer w's connection sees: the committed rows and its own
\* uncommitted inserts.
Visible(w) == db \o wr[w].pending

\* Mutant: the lookup never finds a row.
Found_Never(w, item) == FALSE

\* SELECT id FROM tools WHERE source_id = ?  ... fetchone() is not None
Found(w, item) ==
    /\ ~IsNone(SourceIdText(item))
    /\ \E i \in DOMAIN Visible(w) : Visible(w)[i].source_id = SourceIdText(item)

\* save_to_database(data): connect, inserted = 0 (data drawn from batches)
BeginSaveOf(w, batches) ==
    /\ wr[w].pc \in {"idle", "done"}
    /\ st_calls < MaxCalls
    /\ \E data \in batches :
          wr' = [wr EXCEPT ![w] =
                    [pc |-> "select", data |-> data, idx |-> 1, inserted |-> 0,
                     pending |-> <<>>, error |-> FALSE, ret |-> 0,
                     before |-> Len(db)]]
    /\ st_calls' = st_calls + 1
    /\ st_overlap' = (st_overlap \/ \E v \in Writers \ {w} : wr[v].pc \notin {"idle", "done"})
    /\ UNCHANGED <<db, st_total, st_failed>>

BeginSave(w) == BeginSaveOf(w, Batches)

\* The SELECT for the current item; a row found means the item is skipped.
Select(w) ==
    /\ wr[w].pc = "select"
    /\ wr[w].idx <= Len(wr[w].data)
    /\ IF Found(w, wr[w].data[wr[w].idx])
       THEN wr' = [wr EXCEPT ![w].idx = @ + 1]
       ELSE wr' = [wr EXCEPT ![w].pc = "insert"]
    /\ UNCHANGED <<db, st_overlap, st_calls, st_total, st_failed>>

\* The INSERT for the current item and inserted += 1; a NULL name raises
\* sqlite3.IntegrityError. The first INSERT of a call opens the transaction
\* and takes the write lock of the database file: while another connection
\* holds uncommitted inserts the statement waits (and StoreError is the wait
\* that times out with "database is locked").
Insert(w) ==
    /\ wr[w].pc = "insert"
    /\ \A v \in Writers \ {w} : wr[v].pending = <<>>
    /\ LET item == wr[w].data[wr[w].idx]
       IN  IF IsNone(item.name)
           THEN /\ wr' = [wr EXCEPT ![w].pc = "rollback", ![w].error = TRUE]
                /\ st_failed' = TRUE
           ELSE /\ wr' = [wr EXCEPT
                            ![w].pending = Append(@, RowOf(item, Len(Visible(w)) + 1)),
                            ![w].inserted = @ + 1,
                            ![w].idx = @ + 1,
                            ![w].pc = "select"]
                /\ UNCHANGED st_failed
    /\ UNCHANGED <<db, st_overlap, st_calls, st_total>>

\* Any statement, or the commit, fails with a sqlite3.Error of the store
\* (disk I/O error, database locked).
StoreError(w) ==
    /\ wr[w].pc \in {"select", "insert"}
    /\ wr' = [wr EXCEPT ![w].pc = "rollback", ![w].error = TRUE]
    /\ st_failed' = TRUE
    /\ UNCHANGED <<db, st_overlap, st_calls, st_total>>

\* Mutant: the commit replaces the table by the rows of this call.
AfterCommit_Replace(rows, pending) == pending

\* The table once the transaction's inserts are committed.
AfterCommit(rows, pending) == rows \o pending

\* conn.commit()
Commit(w) ==
    /\ wr[w].pc = "select"
    /\ wr[w].idx > Len(wr[w].data)
    /\ db' = AfterCommit(db, wr[w].pending)
    /\ wr' = [wr EXCEPT ![w].pending = <<>>, ![w].pc = "close"]
    /\ UNCHANGED <<st_overlap, st_calls, st_total, st_failed>>

\* except sqlite3.Error: conn.rollback()
Rollback(w) ==
    /\ wr[w].pc = "rollback"
    /\ wr' = [wr EXCEPT ![w].pending = <<>>, ![w].pc = "close"]
    /\ UNCHANGED <<db, st_overlap, st_calls, st_total, st_failed>>

\* finally: conn.close(); return inserted
ReturnInserted(w) ==
    /\ wr[w].pc = "close"
    /\ wr' = [wr EXCEPT ![w].ret = wr[w].inserted, ![w].pc = "done"]
    /\ st_total' = st_total + wr[w].inserted
    /\ UNCHANGED <<db, st_overlap, st_calls, st_failed>>

\* A single writer: every call runs to completion before the next starts.
NotStore == <<classifyVars, cleanVars, pageVars, crawlVars, parseVars, sinkVars,
              viewVars, pipeVars>>

StoreNext ==
    \/ BeginSave(1) /\ UNCHANGED NotStore
    \/ Select(1) /\ UNCHANGED NotStore
    \/ Insert(1) /\ UNCHANGED NotStore
    \/ StoreError(1) /\ UNCHANGED NotStore
    \/ Commit(1) /\ UNCHANGED NotStore
    \/ Rollback(1) /\ UNCHANGED NotStore
    \/ ReturnInserted(1) /\ UNCHANGED NotStore

SpecStore == AllIdle /\ [][StoreNext]_vars

\* Two processes call save_to_database on the same database file, each on
\* its own connection; their statements interleave in any order.
MaxConcBatch == 1

\* The records the two processes save: two with the same source_id text and
\* one with a None source_id.
ConcItems ==
    {it \in StoreItems : ~IsNone(it.name) /\ SourceIdText(it) \in {Some("1"), None}}

ConcBatches == SeqsUpTo(ConcItems, MaxConcBatch)

ConcurrentNext ==
    \/ \E w \in Writers : BeginSaveOf(w, ConcBatches) /\ UNCHANGED NotStore
    \/ \E w \in Writers : Select(w) /\ UNCHANGED NotStore
    \/ \E w \in Writers : Insert(w) /\ UNCHANGED NotStore
    \/ \E w \in Writers : StoreError(w) /\ UNCHANGED NotStore
    \/ \E w \in Writers : Commit(w) /\ UNCHANGED NotStore
    \/ \E w \in Writers : Rollback(w) /\ UNCHANGED NotStore
    \/ \E w \in Writers : ReturnInserted(w) /\ UNCHANGED NotStore

SpecStoreConcurrent == AllIdle /\ [][ConcurrentNext]_vars

(***************************************************************************)
(* DataStorage.save_to_json, save_to_csv                                   *)
(***************************************************************************)
MaxSinkCalls == 2
MaxClock == 2

\* datetime.now() has microseconds; strftime('%Y%m%d_%H%M%S') keeps seconds.
TicksPerSecond == 2
Stamp(tick) == tick \div TicksPerSecond

CsvDescLimit == 200

\* s[:n]
Prefix(str, n) == IF Len(str) > n THEN SubSeq(str, 1, n) ELSE str

\* The canonical lists the sinks are called with.
SinkTools ==
    { [name |-> "CBMC Bounded Model Checker",
       description |-> "Bounded model checking for C",
       category |-> "functional_correctness", source |-> "zenodo",
       source_id |-> IntId("1"), keywords |-> <<"verification", "c">>,
       license |-> Some("open")],
      [name |-> "AProVE", description |-> Rep("d", CsvDescLimit + 1),
       category |-> "termination", source |-> "zenodo",
       source_id |-> StrId("7"), keywords |-> <<>>, license |-> None] }

SinkLists == SeqsUpTo(SinkTools, 2)

\* The filename argument: None, or a name the caller chose.
FilenameArgs == {None, Some("latest")}

\* tools_{timestamp}.json / tools_{timestamp}.csv, or the caller's name
FileName(fn, tick) ==
    IF IsNone(fn)
    THEN [kind |-> "stamped", stamp |-> Stamp(tick), name |-> ""]
    ELSE [kind |-> "given", stamp |-> 0, name |-> Val(fn)]

\* os.path.join(self.base_dir, dir, filename)
PathOf(dir, fn, tick) == [dir |-> dir, file |-> FileName(fn, tick)]

\* json.dump(data, f): the list as it is
JsonRows(data) == data

\* The row save_to_csv writes for one item.
CsvRow(item) ==
    [name |-> item.name,
     category |-> item.category,
     description |-> Prefix(item.description, CsvDescLimit),
     source |-> item.source,
     source_id |-> IdStr(item.source_id),
     keywords |-> Join(item.keywords, ", ")]

CsvRows(data) == [i \in DOMAIN data |-> CsvRow(data[i])]

\* open(filepath, 'w') and the writes: the file is created or replaced.
Put(fs, path, content) ==
    [q \in DOMAIN fs \cup {path} |-> IF q = path THEN content ELSE fs[q]]

\* What the file system does to one write: it succeeds, open fails, or a
\* write fails after open truncated the file.
IoOutcomes == {"ok", "open_fails", "write_fails"}

\* The body shared by both sinks from "filepath = ..." on: the file written
\* and the path returned, or the IOError raised again.
WriteSnapshot(fmt, data, rows, fn) ==
    LET path == PathOf(fmt, fn, clock)
        call == [fmt |-> fmt, data |-> data, fn |-> fn, path |-> path,
                 tick |-> clock, existed |-> path \in DOMAIN files,
                 prev_mtime |-> IF path \in DOMAIN files
                                THEN files[path].mtime ELSE 0]
    IN  \E io \in IoOutcomes :
          /\ sk_ret' = <<[kind |-> IF io = "ok" THEN "path" ELSE "raised",
                          io |-> io, call |-> call]>>
          /\ files' =
               CASE io = "ok" ->
                      Put(files, path, [complete |-> TRUE, rows |-> rows,
                                        mtime |-> clock])
                 [] io = "open_fails" -> files
                 [] io = "write_fails" ->
                      Put(files, path, [complete |-> FALSE, rows |-> <<>>,
                                        mtime |-> clock])

\* DataStorage.save_to_json
save_to_json ==
    /\ sk_calls < MaxSinkCalls
    /\ \E data \in SinkLists, fn \in FilenameArgs :
          WriteSnapshot("json", data, JsonRows(data), fn)
    /\ sk_calls' = sk_calls + 1
    /\ UNCHANGED <<clock, viewVars>>

\* Mutant: an empty list is written like any other.
CsvSkips_Never(data) == FALSE

\* if not data: return ""
CsvSkips(data) == data = <<>>

\* DataStorage.save_to_csv
save_to_csv ==
    /\ sk_calls < MaxSinkCalls
    /\ \E data \in SinkLists, fn \in FilenameArgs :
          IF CsvSkips(data)
          THEN /\ sk_ret' = <<[kind |-> "empty", io |-> "ok",
                               call |-> [fmt |-> "csv", data |-> data, fn |-> fn,
                                         path |-> PathOf("csv", fn, clock),
                                         tick |-> clock,
                                         existed |-> PathOf("csv", fn, clock) \in DOMAIN files,
                                         prev_mtime |-> 0]]>>
               /\ UNCHANGED files
          ELSE WriteSnapshot("csv", data, CsvRows(data), fn)
    /\ sk_calls' = sk_calls + 1
    /\ UNCHANGED <<clock, viewVars>>

\* Time passes between calls.
Tick ==
    /\ clock < MaxClock
    /\ clock' = clock + 1
    /\ UNCHANGED <<files, sk_ret, sk_calls, viewVars>>

NotSink == <<classifyVars, cleanVars, pageVars, crawlVars, parseVars, storeVars,
             pipeVars>>

SinkNext ==
    \/ save_to_json /\ UNCHANGED NotSink
    \/ save_to_csv /\ UNCHANGED NotSink
    \/ Tick /\ UNCHANGED NotSink

SpecSink == AllIdle /\ [][SinkNext]_vars

(***************************************************************************)
(* DataStorage.query_database, create_backup, get_statistics               *)
(***************************************************************************)
MaxViewBatch == 1

\* The batches saved between queries: records of two categories and two
\* sources, two of them with the same source_id text and different fields.
ViewItems ==
    {item \in StoreItems : ~IsNone(item.name) /\ item.source_id.kind # "absent"
                             /\ item.source_id # IntId("2")}

ViewBatches == SeqsUpTo(ViewItems, MaxViewBatch)

\* The category and limit arguments of query_database.
QueryCategories == {None, Some("functional_correctness")}
QueryLimits == {1, 100}
BackupLimit == 10000

\* The first n elements of a list (LIMIT n).
Limit(list, n) == IF Len(list) > n THEN SubSeq(list, 1, n) ELSE list

\* The positions of the rows a query selects, in rowid order.
RECURSIVE Matching(_, _, _)
Matching(rows, cat, i) ==
    IF i > Len(rows) THEN <<>>
    ELSE (IF IsNone(cat) \/ rows[i].category = Val(cat) THEN <<i>> ELSE <<>>)
             \o Matching(rows, cat, i + 1)

\* SELECT data FROM tools [WHERE category = ?] LIMIT ?, each data decoded
\* (if category: an empty category string selects every row, like None)
QueryRows(rows, cat, limit) ==
    LET c == IF ~IsNone(cat) /\ Val(cat) = "" THEN None ELSE cat
        hit == Limit(Matching(rows, c, 1), limit)
    IN  [k \in DOMAIN hit |-> rows[hit[k]].data]

\* DataStorage.query_database: the rows, or [] on sqlite3.Error
query_database ==
    /\ wr[1].pc \in {"idle", "done"}
    /\ \E cat \in QueryCategories, limit \in QueryLimits, ok \in BOOLEAN :
          qr_result' = <<[category |-> cat, limit |-> limit, ok |-> ok,
                          tools |-> IF ok THEN QueryRows(db, cat, limit) ELSE <<>>]>>
    /\ stats' = <<>>
    /\ UNCHANGED <<storeVars, sinkVars>>

\* DataStorage.create_backup: query_database(limit=10000) written to
\* backup_{timestamp}.json; an IOError is not caught.
create_backup ==
    /\ wr[1].pc \in {"idle", "done"}
    /\ \E ok \in BOOLEAN, io \in IoOutcomes :
          LET all_data == IF ok THEN QueryRows(db, None, BackupLimit) ELSE <<>>
              path == PathOf("backup", None, clock)
          IN  /\ qr_result' = <<[category |-> None, limit |-> BackupLimit, ok |-> ok,
                                  tools |-> all_data]>>
              /\ files' =
                   CASE io = "ok" ->
                          Put(files, path, [complete |-> TRUE, rows |-> all_data,
                                            mtime |-> clock])
                     [] io = "open_fails" -> files
                     [] io = "write_fails" ->
                          Put(files, path, [complete |-> FALSE, rows |-> <<>>,
                                            mtime |-> clock])
    /\ stats' = <<>>
    /\ UNCHANGED <<storeVars, clock, sk_ret, sk_calls>>

\* Mutant: a group counts once however many rows it has.
GroupCount_One(rows, field, v) ==
    IF \E i \in DOMAIN rows : rows[i][field] = v THEN 1 ELSE 0

\* COUNT(*) of the group of rows whose column field is v.
GroupCount(rows, field, v) ==
    Cardinality({i \in DOMAIN rows : rows[i][field] = v})

\* SELECT field, COUNT(*) FROM tools GROUP BY field, as the dict built from it
GroupBy(rows, field) ==
    [v \in {rows[i][field] : i \in DOMAIN rows} |-> GroupCount(rows, field, v)]

\* How far get_statistics gets before a query raises sqlite3.Error: 0, 1 or
\* 2 queries done, or all 3.
StatsProgress == 0..3

\* DataStorage.get_statistics
get_statistics ==
    /\ wr[1].pc \in {"idle", "done"}
    /\ \E done \in StatsProgress :
          stats' = <<[queries |-> done,
                      total_records |-> IF done >= 1 THEN Len(db) ELSE 0,
                      categories |-> IF done >= 2 THEN GroupBy(db, "category") ELSE <<>>,
                      sources |-> IF done >= 3 THEN GroupBy(db, "source") ELSE <<>>]>>
    /\ qr_result' = <<>>
    /\ UNCHANGED <<storeVars, sinkVars>>

NotStoreViews == <<classifyVars, cleanVars, pageVars, crawlVars, parseVars, pipeVars>>

\* The next save_to_database call of the process; what the earlier query or
\* statistics call returned is no longer looked at.
SaveAfterViews ==
    /\ BeginSaveOf(1, ViewBatches)
    /\ qr_result' = <<>>
    /\ stats' = <<>>
    /\ UNCHANGED <<NotStoreViews, sinkVars>>

ViewsNext ==
    \/ SaveAfterViews
    \/ Select(1) /\ UNCHANGED NotStore
    \/ Insert(1) /\ UNCHANGED NotStore
    \/ StoreError(1) /\ UNCHANGED NotStore
    \/ Commit(1) /\ UNCHANGED NotStore
    \/ Rollback(1) /\ UNCHANGED NotStore
    \/ ReturnInserted(1) /\ UNCHANGED NotStore
    \/ query_database /\ UNCHANGED NotStoreViews
    \/ create_backup /\ UNCHANGED NotStoreViews
    \/ get_statistics /\ UNCHANGED NotStoreViews

\* One process that saves, queries, backs up and reads statistics in turn.
SpecStoreViews == AllIdle /\ [][ViewsNext]_vars

(***************************************************************************)
(* VerificationToolsPipeline.run_full_pipeline                             *)
(***************************************************************************)
MaxScenarioHits == 1

\* The records the search API holds in the end-to-end runs: a relevant model
\* checker, an excluded "patient" record and a relevant record with an empty
\* title.
ScenarioHits ==
    {h \in AllHits : h.id \in {IntId("1"), IntId("2"), IntId("5")}}

ScenarioOutcomes == OutcomesOver(ScenarioHits, MaxScenarioHits)

\* The canonical tool as save_to_database reads it with item.get.
AsStoreItem(tool) ==
    [name |-> Some(tool.name), category |-> tool.category,
     source |-> tool.source, source_id |-> tool.source_id]

AsStoreItems(tools) == [i \in DOMAIN tools |-> AsStoreItem(tools[i])]

\* The next process on the same data directory: a new pipeline object with a
\* new crawler, parser and storage; the database file and the files stay.
NewProcess ==
    /\ pl_pc \in {"done", "raised"}
    /\ pl_runs < MaxCalls
    /\ pl_pc' = "idle"
    /\ seen_ids' = {}
    /\ cr_pc' = "idle"
    /\ cr_categories' = <<>>
    /\ cr_ci' = 1
    /\ cr_qi' = 1
    /\ cr_all_results' = <<>>
    /\ cr_result' = <<>>
    /\ cr_runs' = 0
    /\ cr_seen_before' = {}
    /\ cr_returned_by' = <<>>
    /\ cr_fail' = <<>>
    /\ cr_late' = {}
    /\ cr_call' = ""
    /\ cr_emitted' = <<>>
    /\ cr_dropped' = {}
    /\ cr_call_ids' = {}
    /\ parsed_tools' = <<>>
    /\ validation_errors' = <<>>
    /\ ps_calls' = 0
    /\ wr' = [w \in Writers |-> IdleWriter]
    /\ sk_ret' = <<>>
    /\ stats' = <<>>
    /\ UNCHANGED <<db, st_calls, st_total, st_failed, st_overlap, files, clock,
                   sk_calls, qr_result, pl_runs, pl_db_before>>

\* run_full_pipeline, run_crawl: self.crawler.run() with no categories
PipeStart ==
    /\ pl_pc = "idle"
    /\ pl_runs < MaxCalls
    /\ cr_runs = 0
    /\ StartRunOf({None})
    /\ pl_pc' = "crawl"
    /\ pl_runs' = pl_runs + 1
    /\ pl_db_before' = db
    /\ UNCHANGED <<parseVars, storeVars, sinkVars, viewVars>>

\* run_crawl: one query of crawler.run()
PipeCrawlQuery ==
    /\ pl_pc = "crawl"
    /\ RunQueryStep("calls", ScenarioOutcomes)
    /\ UNCHANGED <<parseVars, storeVars, sinkVars, viewVars, pipeVars>>

\* run_crawl: crawler.run() returns
PipeCrawlReturn ==
    /\ pl_pc = "crawl"
    /\ RunReturn
    /\ pl_pc' = "parse"
    /\ UNCHANGED <<parseVars, storeVars, sinkVars, viewVars, pl_runs, pl_db_before>>

\* run_parse
PipeParse ==
    /\ pl_pc = "parse"
    /\ Parse
    /\ pl_pc' = "json"
    /\ UNCHANGED <<storeVars, sinkVars, viewVars, pl_runs, pl_db_before>>

\* run_store: self.storage.save_to_json(parsed_data); the IOError it raises
\* again ends run_full_pipeline.
PipeJson ==
    /\ pl_pc = "json"
    /\ WriteSnapshot("json", parsed_tools, JsonRows(parsed_tools), None)
    /\ sk_calls' = sk_calls + 1
    /\ pl_pc' = IF sk_ret'[1].kind = "raised" THEN "raised" ELSE "csv"
    /\ UNCHANGED <<crawlVars, parseVars, storeVars, clock, viewVars, pl_runs,
                   pl_db_before>>

\* run_store: self.storage.save_to_csv(parsed_data)
PipeCsv ==
    /\ pl_pc = "csv"
    /\ IF CsvSkips(parsed_tools)
       THEN /\ sk_ret' = <<[kind |-> "empty", io |-> "ok",
                            call |-> [fmt |-> "csv", data |-> parsed_tools,
                                      fn |-> None,
                                      path |-> PathOf("csv", None, clock),
                                      tick |-> clock,
                                      existed |-> PathOf("csv", None, clock) \in DOMAIN files,
                                      prev_mtime |-> 0]]>>
            /\ UNCHANGED files
       ELSE WriteSnapshot("csv", parsed_tools, CsvRows(parsed_tools), None)
    /\ sk_calls' = sk_calls + 1
    /\ pl_pc' = IF sk_ret'[1].kind = "raised" THEN "raised" ELSE "db"
    /\ UNCHANGED <<crawlVars, parseVars, storeVars, clock, viewVars, pl_runs,
                   pl_db_before>>

\* run_store: self.storage.save_to_database(parsed_data) is entered
PipeDbBegin ==
    /\ pl_pc = "db"
    /\ wr[1].pc = "idle"
    /\ BeginSaveOf(1, {AsStoreItems(parsed_tools)})
    /\ UNCHANGED <<crawlVars, parseVars, sinkVars, viewVars, pipeVars>>

\* run_store returns; run_upload uploads nothing on a dry run
PipeDbReturn ==
    /\ pl_pc = "db"
    /\ ReturnInserted(1)
    /\ pl_pc' = "stats"
    /\ UNCHANGED <<crawlVars, parseVars, sinkVars, viewVars, pl_runs, pl_db_before>>

\* 'stats': self.storage.get_statistics()
PipeStats ==
    /\ pl_pc = "stats"
    /\ get_statistics
    /\ pl_pc' = "done"
    /\ UNCHANGED <<crawlVars, parseVars, pl_runs, pl_db_before>>

NotEndToEnd == <<classifyVars, cleanVars, pageVars>>

NotStoreInPipe == <<crawlVars, parseVars, sinkVars, viewVars, pipeVars>>

EndToEndNext ==
    \/ NewProcess /\ UNCHANGED NotEndToEnd
    \/ PipeStart /\ UNCHANGED NotEndToEnd
    \/ PipeCrawlQuery /\ UNCHANGED NotEndToEnd
    \/ PipeCrawlReturn /\ UNCHANGED NotEndToEnd
    \/ PipeParse /\ UNCHANGED NotEndToEnd
    \/ PipeJson /\ UNCHANGED NotEndToEnd
    \/ PipeCsv /\ UNCHANGED NotEndToEnd
    \/ PipeDbBegin /\ UNCHANGED NotEndToEnd
    \/ pl_pc = "db" /\ Select(1) /\ UNCHANGED <<NotEndToEnd, NotStoreInPipe>>
    \/ pl_pc = "db" /\ Insert(1) /\ UNCHANGED <<NotEndToEnd, NotStoreInPipe>>
    \/ pl_pc = "db" /\ StoreError(1) /\ UNCHANGED <<NotEndToEnd, NotStoreInPipe>>
    \/ pl_pc = "db" /\ Commit(1) /\ UNCHANGED <<NotEndToEnd, NotStoreInPipe>>
    \/ pl_pc = "db" /\ Rollback(1) /\ UNCHANGED <<NotEndToEnd, NotStoreInPipe>>
    \/ PipeDbReturn /\ UNCHANGED NotEndToEnd
    \/ PipeStats /\ UNCHANGED NotEndToEnd

\* The pipeline run by one process after another on the same data directory.
SpecEndToEnd == AllIdle /\ [][EndToEndNext]_vars

(***************************************************************************)
(* Claims about run and parse_zenodo_data                                  *)
(***************************************************************************)
\* The records of list that were built from hit h.
FromHit(list, h) ==
    {i \in DOMAIN list : Untagged(list[i]) = extract_relevant_data(h)}

\* The canonical tools of list that carry hit h's identifier.
ToolsOf(list, h) == {i \in DOMAIN list : list[i].source_id = h.id}

ReturnedByTwoCategories(h) ==
    /\ h \in DOMAIN cr_returned_by
    /\ cr_returned_by[h].multi

\* C2: when run returns, no two records of the returned list have the same
\* identifier (compared as the crawler compares them, by str(id)), however
\* many queries and categories returned it.
C2_UniqueIds ==
    /\ \A i, j \in DOMAIN cr_all_results :
          i # j => IdStr(cr_all_results[i].id) # IdStr(cr_all_results[j].id)
    /\ cr_pc = "done" =>
          \A i, j \in DOMAIN cr_result :
              i # j => /\ cr_result[i].id # cr_result[j].id
                       /\ IdStr(cr_result[i].id) # IdStr(cr_result[j].id)

\* C2 witness: run returned two records, one of which had been returned by
\* queries of two categories.
C2_Witness ==
    /\ cr_pc = "done"
    /\ Len(cr_result) = 2
    /\ \E h \in DOMAIN cr_returned_by :
          /\ cr_returned_by[h].multi
          /\ FromHit(cr_result, h) # {}

\* The case of C3: hit h was returned by queries of two different categories
\* of this run, run emitted it, and it normalizes to a valid tool.
C3_Case(h) ==
    /\ ps_calls = 1
    /\ ReturnedByTwoCategories(h)
    /\ FromHit(cr_result, h) # {}
    /\ OutcomeOf[extract_relevant_data(h)].kind = "tool"

C5_ParsedPlusErrors ==
    ps_calls = 1 =>
        Len(parsed_tools) + Len(validation_errors) = Len(cr_result)

\* C11: a search request that fails in transport or with an error status
\* never makes run raise; run goes on with the next query and category, the
\* records admitted before the failure stay at the head of the output in
\* order, and every relevant record a later query returns with an identifier
\* not seen until then is in the output.
C11_FailureContinues ==
    /\ cr_pc # "raised"
    /\ cr_fail # <<>> =>
          /\ Len(cr_fail[1]) <= Len(cr_all_results)
          /\ SubSeq(cr_all_results, 1, Len(cr_fail[1])) = cr_fail[1]
          /\ \A h \in cr_late : FromHit(cr_all_results, h) # {}
          /\ cr_pc = "done" =>
                /\ cr_result = cr_all_results
                /\ \A h \in cr_late : FromHit(cr_result, h) # {}

\* C11 witness: run returned two records, one admitted before a request
\* failed and one returned by a query of the next category after it.
C11_Witness ==
    /\ cr_pc = "done"
    /\ cr_fail # <<>>
    /\ Len(cr_fail[1]) = 1
    /\ Len(cr_result) = 2
    /\ cr_result[1].search_category # cr_result[2].search_category
    /\ \E h \in cr_late : FromHit(cr_result, h) = {2}

(***************************************************************************)
(* Claims about save_to_json and save_to_csv                               *)
(***************************************************************************)
\* The complete snapshot of list data in the format of sink fmt.
SnapshotOf(fmt, data) == IF fmt = "json" THEN JsonRows(data) ELSE CsvRows(data)

HoldsSnapshot(r) ==
    /\ r.call.path \in DOMAIN files
    /\ files[r.call.path].complete
    /\ files[r.call.path].rows = SnapshotOf(r.call.fmt, r.call.data)

\* C13 as stated: every invocation of save_to_json or save_to_csv, whatever
\* the list holds and whatever earlier calls wrote, returns the path of a new
\* file that holds the complete snapshot of the list.
C13_Original ==
    \A i \in DOMAIN sk_ret :
        (sk_ret[i].io = "ok" /\ IsNone(sk_ret[i].call.fn)) =>
            /\ sk_ret[i].kind = "path"
            /\ ~sk_ret[i].call.existed
            /\ HoldsSnapshot(sk_ret[i])

\* C13 amended: save_to_json, and save_to_csv given a non-empty list, write
\* the complete snapshot of the list to the file named by the second of the
\* call (or by the caller) and return its path unless the write raises
\* IOError; save_to_csv given an empty list writes nothing and returns "".
\* The file is new unless the same sink already wrote in the same second (or
\* under the same given name): then the earlier snapshot is replaced. No
\* file bears a second later than the current one.
C13_SnapshotWriters ==
    /\ \A i \in DOMAIN sk_ret :
          LET r == sk_ret[i]
              c == r.call
          IN  /\ r.kind = "empty" <=> (c.fmt = "csv" /\ c.data = <<>>)
              /\ r.kind = "path" <=> (r.io = "ok" /\ ~(c.fmt = "csv" /\ c.data = <<>>))
              /\ r.kind = "path" => HoldsSnapshot(r)
              /\ (r.kind = "path" /\ c.existed /\ IsNone(c.fn)) =>
                     Stamp(c.prev_mtime) = Stamp(c.tick)
              /\ (r.kind = "empty" /\ ~c.existed) => c.path \notin DOMAIN files
    /\ \A q \in DOMAIN files :
          /\ q.file.kind = "stamped" => q.file.stamp <= Stamp(clock)
          /\ files[q].mtime <= clock

\* C13 witness: a save_to_json call without a filename replaced the snapshot
\* an earlier call of the same second had written.
C13_Witness ==
    /\ sk_calls = 2
    /\ \E i \in DOMAIN sk_ret :
          /\ sk_ret[i].kind = "path"
          /\ sk_ret[i].call.fmt = "json"
          /\ IsNone(sk_ret[i].call.fn)
          /\ sk_ret[i].call.existed
          /\ sk_ret[i].call.tick = 1
          /\ sk_ret[i].call.prev_mtime = 0
          /\ HoldsSnapshot(sk_ret[i])

(***************************************************************************)
(* Claims about save_to_database                                           *)
(***************************************************************************)
\* C1: with a single writer, the store holds at most one row per source_id;
\* a call that met no store error returns exactly the number of rows it added;
\* and as long as no call met a store error the counts returned add up to the
\* number of rows (the same record saved twice, in two calls or twice in one
\* batch, leaves one row and a total count of 1).
C1_IdempotentInsert ==
    /\ \A i, j \in DOMAIN db : i # j => db[i].source_id # db[j].source_id
    /\ (wr[1].pc = "done" /\ ~wr[1].error) => wr[1].ret = Len(db) - wr[1].before
    /\ (wr[1].pc = "done" /\ ~st_failed) => st_total = Len(db)

\* What holds of save_to_database for the records whose source_id is not None:
\* at most one row per source_id text, and the counts as in C1.
IdempotentForTextSourceId ==
    /\ \A i, j \in DOMAIN db :
          (i # j /\ ~IsNone(db[i].source_id)) => db[i].source_id # db[j].source_id
    /\ (wr[1].pc = "done" /\ ~wr[1].error) => wr[1].ret = Len(db) - wr[1].before
    /\ (wr[1].pc = "done" /\ ~st_failed) => st_total = Len(db)

\* C4: after a call that met a store error, the returned count does not
\* exceed the number of rows of that call that are present in the store.
C4_ReturnedCountIsCommitted ==
    (wr[1].pc = "done" /\ wr[1].error) => wr[1].ret <= Len(db) - wr[1].before

\* C14: no step of save_to_database, query_database, create_backup or
\* get_statistics changes or removes a committed row, and a save that met no
\* store error adds no row for a source_id text that was stored before the
\* call: the row first written stays as it is even when the new record's
\* fields differ.
C14_AppendOnlyFirstWriteWins ==
    /\ [][\A i \in DOMAIN db : i \in DOMAIN db' /\ db'[i] = db[i]]_vars
    /\ []((wr[1].pc = "done" /\ ~wr[1].error) =>
             \A k \in DOMAIN wr[1].data, i \in 1..wr[1].before :
                 (db[i].source_id = SourceIdText(wr[1].data[k])
                     /\ ~IsNone(db[i].source_id)) =>
                     \A j \in (wr[1].before + 1)..Len(db) :
                         db[j].source_id # db[i].source_id)

\* C14 witness: a record whose source_id is stored under another name,
\* category and source was saved again; the save returned 0 and the table
\* still holds the one row as first written, after a backup and a
\* get_statistics call.
C14_Witness ==
    /\ st_calls = 2
    /\ wr[1].pc = "done"
    /\ ~st_failed
    /\ wr[1].ret = 0
    /\ Len(db) = 1
    /\ Len(wr[1].data) = 1
    /\ db[1].source_id = SourceIdText(wr[1].data[1])
    /\ db[1].name # Val(wr[1].data[1].name)
    /\ db[1].source # wr[1].data[1].source
    /\ PathOf("backup", None, clock) \in DOMAIN files
    /\ stats # <<>>
    /\ stats[1].total_records = 1

\* C15: a record is skipped as a duplicate exactly when a stored row has the
\* same source and the same source_id: after a save that met no store error
\* every record of the batch has a row with its source and source_id, and no
\* two rows have the same source and the same (non-NULL) source_id.
C15_NaturalKeyIsPair ==
    /\ (wr[1].pc = "done" /\ ~wr[1].error) =>
          \A k \in DOMAIN wr[1].data :
              \E i \in DOMAIN db :
                  /\ db[i].source = wr[1].data[k].source
                  /\ db[i].source_id = SourceIdText(wr[1].data[k])
    /\ \A i, j \in DOMAIN db :
          (i # j /\ ~IsNone(db[i].source_id)) =>
              <<db[i].source, db[i].source_id>> # <<db[j].source, db[j].source_id>>

RECURSIVE SumCounts(_)
SumCounts(f) ==
    IF DOMAIN f = {} THEN 0
    ELSE LET v == CHOOSE x \in DOMAIN f : TRUE
         IN  f[v] + SumCounts([w \in DOMAIN f \ {v} |-> f[w]])

\* C17: get_statistics changes no row and no call in progress, and when its
\* three queries succeed total_records is the number of rows and equals both
\* the sum of the per-category counts and the sum of the per-source counts.
C17_StatisticsDerived ==
    /\ [][(stats' # stats /\ stats' # <<>>) =>
              (db' = db /\ wr' = wr /\ files' = files)]_vars
    /\ []((stats # <<>> /\ stats[1].queries = 3) =>
             /\ stats[1].total_records = Len(db)
             /\ SumCounts(stats[1].categories) = stats[1].total_records
             /\ SumCounts(stats[1].sources) = stats[1].total_records
             /\ \A c \in DOMAIN stats[1].categories :
                    stats[1].categories[c] =
                        Cardinality({i \in DOMAIN db : db[i].category = c}))

\* C17 witness: get_statistics answered for a table of two rows of one
\* category and one source.
C17_Witness ==
    /\ stats # <<>>
    /\ stats[1].queries = 3
    /\ stats[1].total_records = 2
    /\ DOMAIN stats[1].categories = {"functional_correctness"}
    /\ stats[1].categories["functional_correctness"] = 2
    /\ stats[1].sources["zenodo"] = 2

\* Two committed rows hold the same source_id text.
DoubleInsert ==
    \E i, j \in DOMAIN db :
        i # j /\ ~IsNone(db[i].source_id) /\ db[i].source_id = db[j].source_id

\* C16: two rows with the same source_id text are committed only when a
\* save_to_database call began while another was in progress: calls that
\* each run to completion before the next begins never insert a stored
\* source_id again, interleaved calls can.
C16_DoubleInsertOnlyWhenInterleaved == DoubleInsert => st_overlap

\* C16 witness: both writers passed the lookup for the same source_id, both
\* inserted and committed without an error, and each returned 1.
C16_Witness ==
    /\ DoubleInsert
    /\ ~st_failed
    /\ \A w \in Writers : wr[w].pc = "done" /\ wr[w].ret = 1

\* C18: every canonical tool built from a record of extract_relevant_data
\* carries as license the license id of the raw record, and "unknown" when
\* the raw record has no license.
C18_LicenseFromLicenseId ==
    \A h \in RawHits :
        \A i \in ToolsOf(parsed_tools, h) :
            parsed_tools[i].license =
                (IF IsNone(h.license) THEN Some("unknown") ELSE h.license)

\* C19: over any sequence of run and run_quick calls on one crawler seen_ids
\* never loses an identifier, an identifier run dropped as irrelevant is in
\* seen_ids, no identifier is appended to an output list twice in total, an
\* identifier run dropped as irrelevant is never appended to an output list,
\* and a call whose searches return only identifiers seen before the call
\* returns the empty list.
C19_SeenIdsOnlyGrow ==
    /\ [][seen_ids \subseteq seen_ids']_vars
    /\ [](/\ cr_dropped \subseteq seen_ids
          /\ Range(cr_emitted) \subseteq seen_ids
          /\ \A i, j \in DOMAIN cr_emitted : i # j => cr_emitted[i] # cr_emitted[j]
          /\ cr_dropped \cap Range(cr_emitted) = {}
          /\ (cr_pc = "done" /\ cr_call_ids \subseteq cr_seen_before) =>
                 cr_result = <<>>)

\* C19 witness: a run_quick call that came after a run has returned the empty
\* list although its searches returned a record the run had emitted and a
\* record the run had dropped as irrelevant.
C19_Witness ==
    /\ cr_pc = "done"
    /\ cr_call = "quick"
    /\ cr_result = <<>>
    /\ cr_call_ids \cap cr_dropped # {}
    /\ cr_call_ids \cap Range(cr_emitted) # {}

\* Whether normalization raises for a crawled record or the tool built from
\* it fails _validate_tool_data.
FailsValidation ==
    [p \in {extract_relevant_data(h) : h \in AllHits} |->
        StandardizeRaises(p) \/ ~_validate_tool_data(_standardize_tool_data(p))]

\* The identifiers of the canonical tools.
CanonicalIds == {IdStr(parsed_tools[i].source_id) : i \in DOMAIN parsed_tools}

\* The identifiers of the records run returned that the parser dropped.
DroppedByValidation ==
    {IdStr(cr_result[i].id) :
        i \in {k \in DOMAIN cr_result : FailsValidation[Untagged(cr_result[k])]}}

\* The canonical tools whose source_id no row held when the process started.
NotYetStored ==
    {i \in DOMAIN parsed_tools :
        \A r \in DOMAIN pl_db_before :
            pl_db_before[r].source_id # Some(IdStr(parsed_tools[i].source_id))}

Parsed == pl_pc \in {"json", "csv", "db", "stats", "done"}

Stored == pl_pc \in {"stats", "done"} /\ ~wr[1].error

\* C12: in a pipeline run whose writes do not fail, every record the crawler
\* admitted (an identifier it met for the first time) is exactly one of: the
\* source of one canonical tool, dropped by relevance, dropped by validation;
\* and the table gains exactly one row for each canonical tool whose
\* source_id no row held before, and no other row. When the searches return
\* the three records of the scenario there is 1 canonical tool, 1 record
\* dropped by relevance, 1 dropped by validation, and an empty table gains 1
\* row.
C12_EndToEndOutcomes ==
    /\ Parsed =>
          /\ CanonicalIds \cup cr_dropped \cup DroppedByValidation = seen_ids
          /\ CanonicalIds \cap cr_dropped = {}
          /\ CanonicalIds \cap DroppedByValidation = {}
          /\ cr_dropped \cap DroppedByValidation = {}
          /\ Cardinality(CanonicalIds) = Len(parsed_tools)
          /\ cr_call_ids = {"1", "2", "5"} =>
                /\ Len(parsed_tools) = 1
                /\ Cardinality(cr_dropped) = 1
                /\ Cardinality(DroppedByValidation) = 1
    /\ Stored =>
          /\ SubSeq(db, 1, Len(pl_db_before)) = pl_db_before
          /\ Len(db) = Len(pl_db_before) + Cardinality(NotYetStored)
          /\ \A i \in NotYetStored :
                Cardinality({j \in DOMAIN db :
                                db[j].source_id = Some(IdStr(parsed_tools[i].source_id))}) = 1
          /\ (cr_call_ids = {"1", "2", "5"} /\ pl_db_before = <<>>) => Len(db) = 1

\* C12 witness: the searches returned the three records of the scenario, the
\* pipeline stored its output in an empty table, and the table now holds the
\* one row of the model checker.
C12_Witness ==
    /\ pl_pc = "done"
    /\ ~wr[1].error
    /\ cr_call_ids = {"1", "2", "5"}
    /\ pl_db_before = <<>>
    /\ Len(parsed_tools) = 1
    /\ cr_dropped = {"2"}
    /\ DroppedByValidation = {"5"}
    /\ Len(db) = 1
    /\ db[1].name = "CBMC Bounded Model Checker"

====
